---- MODULE Spec2Model ----
(***************************************************************************)
(* Model of aws-delivlib's change-control time window gate                 *)
(* (change-control-lambda/lib/time-window.ts), of its code signing         *)
(* certificate (lib/code-signing/certificate-signing-request.ts) and of    *)
(* its script runner (lib/shellable.ts).                                   *)
(*                                                                         *)
(* Values of type `Date | undefined` and `CalendarEvent | undefined` are   *)
(* sequences of length at most one: <<>> is JavaScript's undefined and     *)
(* <<v>> is the value v.  A Date is its epoch time in milliseconds.        *)
(***************************************************************************)
EXTENDS Integers, Sequences, FiniteSets, TLC

\* ------------------------------------------------------------------ bounds
\* Largest number of records in a parsed calendar.
MaxEvents == 2
\* Instants range over 0 .. MaxTime half hours.
MaxTime == 2
\* Explicit margins range over -1 .. MaxMargin half hours.
MaxMargin == 2
\* Largest number of evaluations in a periodic series.
MaxEvaluations == 4
\* Number of concurrent invocations sharing a calendar.
MaxCalls == 2
MaxPipelineActions == 2

\* ------------------------------------------------------- program constants
\* advanceMarginSec = 3600
DefaultAdvanceMarginSec == 3600
\* if (this.outputArtifactName.length > 100)
MaxArtifactNameLength == 100
\* keySize: props.rsaKeySize || 2048
DefaultRsaKeySize == 2048
\* advanceMarginSec * 1_000
MillisPerSecond == 1000

\* --------------------------------------------------------------- the inputs
Undefined == <<>>

HalfHourSec == DefaultAdvanceMarginSec \div 2

Instants == {t * HalfHourSec * MillisPerSecond : t \in 0..MaxTime}

Dates == {<<t>> : t \in Instants}

MarginArgs == {Undefined} \cup {<<k * HalfHourSec>> : k \in -1..MaxMargin}

RecordTypes == {"VEVENT", "VTODO"}

\* interface CalendarEvent; uid is the key of the record in Events, which
\* stands for the identity of the object.
CalendarEvent == [uid : 1..MaxEvents, type : RecordTypes,
                  start : Dates \cup {Undefined}, end : Dates \cup {Undefined}]

\* Object.values(events) lists the records in insertion order of their keys;
\* keys are named by that order.
EventLists == UNION {{es \in [1..n -> CalendarEvent] : \A i \in 1..n : es[i].uid = i} : n \in 0..MaxEvents}

\* ------------------------------------------------------------ the functions
\* ToNumber of a Date is its time value, of undefined is NaN; every
\* relational comparison with NaN is false.
GreaterEq(a, b) == a # Undefined /\ b # Undefined /\ a[1] >= b[1]

LessEq(a, b) == a # Undefined /\ b # Undefined /\ a[1] <= b[1]

\* Mutant: the edges of the interval are excluded.
isBetween_Strict(date, left, right) ==
    /\ GreaterEq(date, left) /\ date # left
    /\ LessEq(date, right) /\ date # right

isBetween(date, left, right) == GreaterEq(date, left) /\ LessEq(date, right)

\* Mutant: only the ends of the period are looked up in the event.
happensBetween_PeriodEndsOnly(event, fromDate, toDate) ==
    \/ isBetween(fromDate, event.start, event.end)
    \/ isBetween(toDate, event.start, event.end)

\* Mutant: the bounds of the event are put in order before the test.
happensBetween_Normalising(event, fromDate, toDate) ==
    LET swap == GreaterEq(event.start, event.end)
        first == IF swap THEN event.end ELSE event.start
        last == IF swap THEN event.start ELSE event.end
    IN  \/ isBetween(fromDate, first, last)
        \/ isBetween(toDate, first, last)
        \/ isBetween(first, fromDate, toDate)
        \/ isBetween(last, fromDate, toDate)

happensBetween(event, fromDate, toDate) ==
    \/ isBetween(fromDate, event.start, event.end)
    \/ isBetween(toDate, event.start, event.end)
    \/ isBetween(event.start, fromDate, toDate)
    \/ isBetween(event.end, fromDate, toDate)

\* Mutant: the margin is applied before the date.
BufferedDate_Backward(date, advanceMarginSec) == <<date[1] - advanceMarginSec * MillisPerSecond>>

BufferedDate(date, advanceMarginSec) == <<date[1] + advanceMarginSec * MillisPerSecond>>

\* Mutant: the filter on the record type lets every record through.
IsVEvent_Any(e) == e.type \in RecordTypes

IsVEvent(e) == e.type = "VEVENT"

\* Mutant: the search stops after the first record of the calendar.
containingEventsWithMargin_FirstOnly(evs, date, advanceMarginSec) ==
    LET bufferedDate == BufferedDate(date, advanceMarginSec)
        Conflicts(e) == happensBetween(e, date, bufferedDate)
        first == IF evs = <<>> THEN <<>> ELSE <<Head(evs)>>
    IN  SelectSeq(SelectSeq(first, IsVEvent), Conflicts)

containingEventsWithMargin(evs, date, advanceMarginSec) ==
    LET bufferedDate == BufferedDate(date, advanceMarginSec)
        Conflicts(e) == happensBetween(e, date, bufferedDate)
    IN  SelectSeq(SelectSeq(evs, IsVEvent), Conflicts)

\* The default value of the parameter applies when the argument is undefined.
\* Mutant: no default value, an omitted margin counts as 0.
MarginOf_NoDefault(marginArg) == IF marginArg = Undefined THEN 0 ELSE marginArg[1]

MarginOf(marginArg) == IF marginArg = Undefined THEN DefaultAdvanceMarginSec ELSE marginArg[1]

\* Mutant: blocks.length > 1 in place of blocks.length > 0.
shouldBlockPipeline_OffByOne(evs, date, marginArg) ==
    LET blocks == containingEventsWithMargin(evs, date, MarginOf(marginArg))
    IN  IF Len(blocks) > 1 THEN <<blocks[1]>> ELSE Undefined

\* Mutant: the last block is returned in place of the first.
shouldBlockPipeline_Last(evs, date, marginArg) ==
    LET blocks == containingEventsWithMargin(evs, date, MarginOf(marginArg))
    IN  IF Len(blocks) > 0 THEN <<blocks[Len(blocks)]>> ELSE Undefined

shouldBlockPipeline(evs, date, marginArg) ==
    LET blocks == containingEventsWithMargin(evs, date, MarginOf(marginArg))
    IN  IF Len(blocks) > 0 THEN <<blocks[1]>> ELSE Undefined

\* ---------------------------------------------------------------- the state
VARIABLES
    events,     \* the parsed calendar, in Object.values order
    now,        \* the reference time passed to shouldBlockPipeline
    marginArg,  \* the advanceMarginSec argument, Undefined when omitted
    returned,   \* <<c>> once a call was made, c its completion, the last one's
    previous,   \* <<c>> once two calls were made, c the completion before the last
    verdicts,   \* periodic evaluation: whether each evaluation so far was blocked
    calls,      \* concurrent evaluation: the invocations sharing the calendar
    csc,        \* the CodeSigningCertificate being constructed
    shell       \* the Shellable being constructed

vars == <<events, now, marginArg, returned, previous, verdicts, calls, csc, shell>>

\* A part of the state that the specification at hand does not use.
Unused == <<>>

\* A call completes by returning a value; no statement of shouldBlockPipeline
\* after the parse throws.
Return(v) == [completion |-> "return", value |-> v]

Init ==
    /\ events \in EventLists
    /\ now \in Dates
    /\ marginArg \in MarginArgs
    /\ returned = <<>>
    /\ previous = <<>>
    /\ verdicts = Unused /\ calls = Unused /\ csc = Unused /\ shell = Unused

\* Mutant: the call takes the block it returns out of the calendar.
Evaluate_Consuming ==
    /\ returned' = <<Return(shouldBlockPipeline(events, now, marginArg))>>
    /\ previous' = returned
    /\ events' = LET v == shouldBlockPipeline(events, now, marginArg)
                      Kept(e) == <<e>> # v
                  IN  SelectSeq(events, Kept)
    /\ UNCHANGED <<now, marginArg, verdicts, calls, csc, shell>>

\* One call of shouldBlockPipeline on the parsed calendar.
Evaluate ==
    /\ returned' = <<Return(shouldBlockPipeline(events, now, marginArg))>>
    /\ previous' = returned
    /\ UNCHANGED <<events, now, marginArg, verdicts, calls, csc, shell>>

Next == Evaluate

Spec == Init /\ [][Next]_vars

\* ------------------------------------------------------ periodic evaluation
\* The caller evaluates again and again as time passes, until after the
\* last instant an event can start or end at.
LaterDates == {<<t * HalfHourSec * MillisPerSecond>> : t \in 0..(MaxTime + 1)}

InitSeries ==
    /\ events \in {es \in EventLists : Len(es) = 1}
    /\ now \in Dates
    /\ marginArg \in MarginArgs
    /\ returned = <<>>
    /\ previous = <<>>
    /\ verdicts = <<>>
    /\ calls = Unused /\ csc = Unused /\ shell = Unused

\* One call of shouldBlockPipeline at the instant d, not before the last one.
EvaluateAt(d) ==
    /\ Len(verdicts) < MaxEvaluations
    /\ d[1] >= now[1]
    /\ now' = d
    /\ returned' = <<Return(shouldBlockPipeline(events, d, marginArg))>>
    /\ previous' = returned
    /\ verdicts' = Append(verdicts, shouldBlockPipeline(events, d, marginArg) # Undefined)
    /\ UNCHANGED <<events, marginArg, calls, csc, shell>>

NextSeries == \E d \in LaterDates : EvaluateAt(d)

SpecSeries == InitSeries /\ [][NextSeries]_vars

\* ---------------------------------------------------- concurrent evaluation
\* Invocations that were handed the same parsed calendar, each with its own
\* now and margin, interleaved statement by statement.
Procs == 1..MaxCalls

InitConcurrent ==
    /\ events \in EventLists
    /\ calls \in [Procs -> [now : Dates, marginArg : MarginArgs, given : {events},
                             pc : {"start"}, values : {<<>>}, blocks : {<<>>},
                             returned : {<<>>}]]
    /\ now = Unused /\ marginArg = Unused /\ returned = Unused /\ previous = Unused
    /\ verdicts = Unused /\ csc = Unused /\ shell = Unused

\* Object.values(events).filter(e => e.type === 'VEVENT')
FilterByType(p) ==
    /\ calls[p].pc = "start"
    /\ calls' = [calls EXCEPT ![p].pc = "typed",
                               ![p].values = SelectSeq(events, IsVEvent)]
    /\ UNCHANGED <<events, now, marginArg, returned, previous, verdicts, csc, shell>>

\* Mutant: the records that do not conflict are taken out of the calendar.
FilterByPeriod_InPlace(p) ==
    /\ calls[p].pc = "typed"
    /\ LET bufferedDate == BufferedDate(calls[p].now, MarginOf(calls[p].marginArg))
           Conflicts(e) == happensBetween(e, calls[p].now, bufferedDate)
       IN  /\ calls' = [calls EXCEPT ![p].pc = "matched",
                                      ![p].blocks = SelectSeq(calls[p].values, Conflicts)]
           /\ events' = SelectSeq(events, Conflicts)
    /\ UNCHANGED <<now, marginArg, returned, previous, verdicts, csc, shell>>

\* .filter(e => happensBetween(e, date, bufferedDate))
FilterByPeriod(p) ==
    /\ calls[p].pc = "typed"
    /\ LET bufferedDate == BufferedDate(calls[p].now, MarginOf(calls[p].marginArg))
           Conflicts(e) == happensBetween(e, calls[p].now, bufferedDate)
       IN  calls' = [calls EXCEPT ![p].pc = "matched",
                                  ![p].blocks = SelectSeq(calls[p].values, Conflicts)]
    /\ UNCHANGED <<events, now, marginArg, returned, previous, verdicts, csc, shell>>

\* return blocks.length > 0 ? blocks[0] : undefined
ReturnFirst(p) ==
    /\ calls[p].pc = "matched"
    /\ calls' = [calls EXCEPT ![p].pc = "done",
                               ![p].returned =
                                   <<Return(IF Len(calls[p].blocks) > 0
                                            THEN <<calls[p].blocks[1]>> ELSE Undefined)>>]
    /\ UNCHANGED <<events, now, marginArg, returned, previous, verdicts, csc, shell>>

NextConcurrent == \E p \in Procs : FilterByType(p) \/ FilterByPeriod(p) \/ ReturnFirst(p)

SpecConcurrent == InitConcurrent /\ [][NextConcurrent]_vars

\* ------------------------------------------------ code signing certificate
\* Optional properties are <<>> when absent and <<v>> when given.
OptionalBooleans == {Undefined, <<FALSE>>, <<TRUE>>}

\* interface CodeSigningCertificateProps (the properties the constructor reads)
CodeSigningCertificateProps ==
    [pemCertificate : {Undefined, <<"">>, <<"PEM">>},
     forceCertificateSigningRequest : OptionalBooleans,
     retainPrivateKey : OptionalBooleans,
     rsaKeySize : {Undefined, <<0>>, <<2 * DefaultRsaKeySize>>}]

\* JavaScript truthiness of an optional string, boolean and number.
TruthyString(x) == x # Undefined /\ x[1] # ""

TruthyBoolean(x) == x # Undefined /\ x[1]

TruthyNumber(x) == x # Undefined /\ x[1] # 0

\* if (!certificate || props.forceCertificateSigningRequest)
NeedsCsr(props) ==
    ~TruthyString(props.pemCertificate) \/ TruthyBoolean(props.forceCertificateSigningRequest)

\* Mutant: a certificate signing request always brings its self-signed
\* certificate.
CertificateOf_SelfSignedWithCsr(props) ==
    IF NeedsCsr(props) THEN "csr.selfSignedPemCertificate" ELSE props.pemCertificate[1]

\* let certificate = props.pemCertificate; ... if (!certificate) { certificate = csr.selfSignedPemCertificate; }
CertificateOf(props) ==
    IF NeedsCsr(props) /\ ~TruthyString(props.pemCertificate)
    THEN "csr.selfSignedPemCertificate"
    ELSE props.pemCertificate[1]

\* if (props.retainPrivateKey == null) { props.retainPrivateKey = true; }
RetainPrivateKey(props) ==
    IF props.retainPrivateKey = Undefined THEN TRUE ELSE props.retainPrivateKey[1]

InitCertificate ==
    /\ csc \in [props : CodeSigningCertificateProps, constructed : {FALSE},
                 children : {<<>>}, privateKey : {Undefined},
                 outputs : {<<>>}, parameterValue : {Undefined}]
    /\ events = Unused /\ now = Unused /\ marginArg = Unused /\ returned = Unused
    /\ previous = Unused /\ verdicts = Unused /\ calls = Unused /\ shell = Unused

\* new CodeSigningCertificate(parent, id, props)
ConstructCertificate ==
    /\ ~csc.constructed
    /\ csc' = [csc EXCEPT
            !.constructed = TRUE,
            !.privateKey = <<[deletionPolicy |-> IF RetainPrivateKey(csc.props)
                                                 THEN <<"Retain">> ELSE Undefined,
                              keySize |-> IF TruthyNumber(csc.props.rsaKeySize)
                                          THEN csc.props.rsaKeySize[1]
                                          ELSE DefaultRsaKeySize]>>,
            !.children = <<"RSAPrivateKey">>
                         \o (IF NeedsCsr(csc.props)
                             THEN <<"CertificateSigningRequest", "CSR">> ELSE <<>>)
                         \o <<"Resource">>,
            !.outputs = IF NeedsCsr(csc.props)
                        THEN <<[id |-> "CSR", value |-> "csr.pemRequest"]>> ELSE <<>>,
            !.parameterValue = <<CertificateOf(csc.props)>>]
    /\ UNCHANGED <<events, now, marginArg, returned, previous, verdicts, calls, shell>>

NextCertificate == ConstructCertificate

SpecCertificate == InitCertificate /\ [][NextCertificate]_vars

\* -------------------------------------------------------------- shellable
\* A command line is the sequence of its pieces: the fixed text of the
\* template and the values interpolated into it.  A name is the sequence of
\* its characters.
Throw(message) == [completion |-> "throw", value |-> message]

OptionalStrings(text) == {Undefined, <<"">>, <<text>>}

\* interface AssumeRole, as the optional property assumeRole
AssumeRole ==
    {Undefined} \cup
    {<<r>> : r \in [roleArn : {"arn:aws:iam::role/r"},
                    sessionName : {"session"},
                    externalId : OptionalStrings("ext"),
                    profileName : OptionalStrings("profile"),
                    refresh : OptionalBooleans]}

\* The four lines pushed first by LinuxPlatform.prebuildCommands.
DownloadCommands ==
    << <<"echo", "Downloading scripts from s3://${SCRIPT_S3_BUCKET}/${SCRIPT_S3_KEY}">>,
       <<"aws s3 cp", "s3://${SCRIPT_S3_BUCKET}/${SCRIPT_S3_KEY}", "/tmp">>,
       <<"mkdir -p", "/tmp/scriptdir">>,
       <<"unzip", "/tmp/$(basename $SCRIPT_S3_KEY)", "-d", "/tmp/scriptdir">> >>

\* const profileName = assumeRole.profileName ?? 'long-running-profile';
ProfileNameOf(role) ==
    IF role.profileName = Undefined THEN "long-running-profile" ELSE role.profileName[1]

\* The lines of the branch if (assumeRole.refresh).
RefreshCommands(role) ==
    << <<"mkdir -p", "~/.aws">>,
       <<"touch", "~/.aws/credentials">>,
       <<"config=", "~/.aws/config">>,
       <<"echo", "[profile", ProfileNameOf(role), "]", ">> ${config}">>,
       <<"echo", "credential_source = EcsContainer", ">> ${config}">>,
       <<"echo", "role_session_name =", role.sessionName, ">> ${config}">>,
       <<"echo", "role_arn =", role.roleArn, ">> $config">> >>
    \o (IF TruthyString(role.externalId)
        THEN << <<"echo", "external_id =", role.externalId[1], ">> $config">> >>
        ELSE <<>>)
    \o << <<"export", "AWS_PROFILE=", ProfileNameOf(role)>>,
          <<"export", "AWS_SDK_LOAD_CONFIG=", "1">> >>

\* The lines of the else branch.
AssumeRoleCommands(role, useRegionalStsEndpoints) ==
    LET externalId == IF TruthyString(role.externalId)
                      THEN <<"--external-id", role.externalId[1]>> ELSE <<"">>
        StsEndpoints == IF TruthyBoolean(useRegionalStsEndpoints) THEN "regional" ELSE "legacy"
    IN  << <<"creds=", "$(mktemp -d)/creds.json">>,
           <<"AWS_STS_REGIONAL_ENDPOINTS=", StsEndpoints, "aws sts assume-role",
             "--role-arn", role.roleArn, "--role-session-name", role.sessionName>>
               \o externalId \o <<"> $creds">>,
           <<"export", "AWS_ACCESS_KEY_ID=", "$(cat ${creds} | grep AccessKeyId | cut -f 4)">>,
           <<"export", "AWS_SECRET_ACCESS_KEY=", "$(cat ${creds} | grep SecretAccessKey | cut -f 4)">>,
           <<"export", "AWS_SESSION_TOKEN=", "$(cat ${creds} | grep SessionToken | cut -f 4)">> >>

\* Mutant: the refresh option is not looked at.
LinuxPlatform_prebuildCommands_NoRefresh(assumeRole, useRegionalStsEndpoints) ==
    Return(DownloadCommands \o
           (IF assumeRole # Undefined
            THEN AssumeRoleCommands(assumeRole[1], useRegionalStsEndpoints)
            ELSE <<>>))

\* LinuxPlatform.prebuildCommands(assumeRole?, useRegionalStsEndpoints?)
LinuxPlatform_prebuildCommands(assumeRole, useRegionalStsEndpoints) ==
    Return(DownloadCommands \o
           (IF assumeRole # Undefined
            THEN IF TruthyBoolean(assumeRole[1].refresh)
                 THEN RefreshCommands(assumeRole[1])
                 ELSE AssumeRoleCommands(assumeRole[1], useRegionalStsEndpoints)
            ELSE <<>>))

\* LinuxPlatform.buildCommands(entrypoint)
LinuxPlatform_buildCommands(entrypoint) ==
    << <<"export", "SCRIPT_DIR=", "/tmp/scriptdir">>,
       <<"echo", "Running", entrypoint>>,
       <<"/bin/bash", "/tmp/scriptdir/", entrypoint>> >>

\* Mutant: a role to assume is accepted on Windows and ignored.
WindowsPlatform_prebuildCommands_Tolerant(assumeRole, useRegionalStsEndpoints) ==
    Return(<<>>)

\* WindowsPlatform.prebuildCommands(assumeRole?, _useRegionalStsEndpoints?)
WindowsPlatform_prebuildCommands(assumeRole, useRegionalStsEndpoints) ==
    IF assumeRole # Undefined
    THEN Throw(<<"assumeRole is not supported on Windows:",
                 "https://github.com/awslabs/aws-delivlib/issues/57">>)
    ELSE Return(<<>>)

\* WindowsPlatform.buildCommands(entrypoint)
WindowsPlatform_buildCommands(entrypoint) ==
    << <<"Set-Variable", "-Name TEMPDIR -Value (New-TemporaryFile).DirectoryName">>,
       <<"aws s3 cp", "s3://$env:SCRIPT_S3_BUCKET/$env:SCRIPT_S3_KEY", "$TEMPDIR/scripts.zip">>,
       <<"New-Item", "-ItemType Directory -Path $TEMPDIR/scriptdir">>,
       <<"Expand-Archive", "-Path $TEMPDIR/scripts.zip -DestinationPath $TEMPDIR/scriptdir">>,
       <<"$env:SCRIPT_DIR =", "$TEMPDIR/scriptdir">>,
       <<"&", "$TEMPDIR/scriptdir/", entrypoint>> >>

\* this.platform = props.platform || ShellPlatform.LinuxUbuntu
PlatformOf(props) == IF props.platform = Undefined THEN "Linux" ELSE props.platform[1]

\* this.platform.prebuildCommands(props.assumeRole, props.useRegionalStsEndpoints)
prebuildCommands(props) ==
    IF PlatformOf(props) = "Linux"
    THEN LinuxPlatform_prebuildCommands(props.assumeRole, props.useRegionalStsEndpoints)
    ELSE WindowsPlatform_prebuildCommands(props.assumeRole, props.useRegionalStsEndpoints)

\* this.platform.buildCommands(props.entrypoint)
buildCommands(props) ==
    IF PlatformOf(props) = "Linux"
    THEN LinuxPlatform_buildCommands(props.entrypoint)
    ELSE WindowsPlatform_buildCommands(props.entrypoint)

\* `Artifact_${this.node.uniqueId}`
ArtifactPrefix == <<"A", "r", "t", "i", "f", "a", "c", "t", "_">>

OutputArtifactNameOf(props) == ArtifactPrefix \o props.uniqueId

\* Unique ids of one character, of the longest length that fits and of one
\* character more.
UniqueIds ==
    {[i \in 1..n |-> "x"] :
        n \in {1, MaxArtifactNameLength - Len(ArtifactPrefix),
                  MaxArtifactNameLength - Len(ArtifactPrefix) + 1}}

\* interface ShellableProps (with the facts of the environment the
\* constructor reads: whether the entrypoint file exists, the unique id of
\* the construct, the additional artifacts of the merged build spec)
ShellableProps ==
    [platform : {Undefined, <<"Linux">>, <<"Windows">>},
     scriptDirectory : {"scripts"},
     entrypoint : {"test.sh"},
     entrypointExists : BOOLEAN,
     uniqueId : UniqueIds,
     assumeRole : AssumeRole,
     useRegionalStsEndpoints : OptionalBooleans,
     additionalArtifactNames : {<<>>, << <<"a">> >>, << <<"b">>, <<"a">> >>}]

NotConstructed(props) ==
    [props |-> props, status |-> "new", error |-> Undefined, children |-> <<>>,
     outputArtifactName |-> Undefined, buildSpec |-> Undefined,
     policy |-> <<>>, stage |-> <<>>]

Failed(sh, error, children) ==
    [sh EXCEPT !.status = "failed", !.error = <<error>>, !.children = children]

InitShellable ==
    /\ shell \in {NotConstructed(props) : props \in ShellableProps}
    /\ events = Unused /\ now = Unused /\ marginArg = Unused /\ returned = Unused
    /\ previous = Unused /\ verdicts = Unused /\ calls = Unused /\ csc = Unused

\* The steps of the constructor after the script asset is created.
AfterAsset(sh) ==
    LET props == sh.props
        preBuild == prebuildCommands(props)
    IN  IF Len(OutputArtifactNameOf(props)) > MaxArtifactNameLength
        THEN Failed(sh, <<"Whoops, too long:", OutputArtifactNameOf(props)>>,
                    <<"ScriptDirectory">>)
        ELSE IF preBuild.completion = "throw"
        THEN Failed([sh EXCEPT !.outputArtifactName = <<OutputArtifactNameOf(props)>>],
                    preBuild.value, <<"ScriptDirectory">>)
        ELSE [sh EXCEPT
                !.status = "constructed",
                !.children = <<"ScriptDirectory", "Resource", "Alarm">>,
                !.outputArtifactName = <<OutputArtifactNameOf(props)>>,
                !.buildSpec = <<[preBuild |-> preBuild.value,
                                 build |-> buildCommands(props),
                                 additionalArtifactNames |-> props.additionalArtifactNames]>>,
                !.policy = IF props.assumeRole # Undefined
                           THEN <<[actions |-> <<"sts:AssumeRole">>,
                                   resources |-> <<props.assumeRole[1].roleArn>>]>>
                           ELSE <<>>]

\* Mutant: the script asset is created before the entrypoint is looked for.
ConstructShellable_AssetFirst ==
    /\ shell.status = "new"
    /\ shell' = IF ~shell.props.entrypointExists
                THEN Failed(shell, <<"Cannot find test entrypoint:",
                                     shell.props.scriptDirectory, "/", shell.props.entrypoint>>,
                            <<"ScriptDirectory">>)
                ELSE AfterAsset(shell)
    /\ UNCHANGED <<events, now, marginArg, returned, previous, verdicts, calls, csc>>

\* new Shellable(parent, id, props)
ConstructShellable ==
    /\ shell.status = "new"
    /\ shell' = IF ~shell.props.entrypointExists
                THEN Failed(shell, <<"Cannot find test entrypoint:",
                                     shell.props.scriptDirectory, "/", shell.props.entrypoint>>,
                            <<>>)
                ELSE AfterAsset(shell)
    /\ UNCHANGED <<events, now, marginArg, returned, previous, verdicts, calls, csc>>

\* Mutant: the additional artifacts are put before the primary one.
AddToPipeline_AdditionalFirst(name) ==
    /\ shell.status = "constructed"
    /\ Len(shell.stage) < MaxPipelineActions
    /\ shell' = [shell EXCEPT !.stage =
                    Append(@, [actionName |-> name,
                               project |-> "Resource",
                               outputs |-> shell.buildSpec[1].additionalArtifactNames
                                           \o shell.outputArtifactName])]
    /\ UNCHANGED <<events, now, marginArg, returned, previous, verdicts, calls, csc>>

\* shellable.addToPipeline(stage, name, inputArtifact, runOrder?)
AddToPipeline(name) ==
    /\ shell.status = "constructed"
    /\ Len(shell.stage) < MaxPipelineActions
    /\ shell' = [shell EXCEPT !.stage =
                    Append(@, [actionName |-> name,
                               project |-> "Resource",
                               outputs |-> shell.outputArtifactName
                                           \o shell.buildSpec[1].additionalArtifactNames])]
    /\ UNCHANGED <<events, now, marginArg, returned, previous, verdicts, calls, csc>>

NextShellable ==
    \/ ConstructShellable
    \/ \E name \in {"Test", "Canary"} : AddToPipeline(name)

SpecShellable == InitShellable /\ [][NextShellable]_vars

\* ------------------------------------------------- vocabulary of the claims
Margin == MarginOf(marginArg)

\* The end of the period searched by the calls of the current state.
Buffered == BufferedDate(now, Margin)

Called == returned # <<>>

CalledTwice == previous # <<>>

\* The completions of the calls the state remembers.
Completions == {returned[k] : k \in DOMAIN returned} \cup {previous[k] : k \in DOMAIN previous}

Values == {c.value : c \in Completions}

Blocked(v) == v # Undefined

HasBounds(e) == e.start # Undefined /\ e.end # Undefined

WellOrdered(e) == HasBounds(e) /\ e.start[1] <= e.end[1]

EventKind(e) == e.type = "VEVENT"

RemoveAt(s, i) == [j \in 1..(Len(s) - 1) |-> IF j < i THEN s[j] ELSE s[j + 1]]

\* ------------------------------------------------------------------- C1
\* C1: for every record with start <= end and every non-negative margin, the
\* four-clause predicate happensBetween(event, now, now + margin) is true
\* exactly when start <= now + margin and end >= now.
C1_FourClausesAreOverlap ==
    \A i \in DOMAIN events :
        (WellOrdered(events[i]) /\ Margin >= 0) =>
            (happensBetween(events[i], now, Buffered)
                <=> (/\ events[i].start[1] <= now[1] + Margin * MillisPerSecond
                     /\ events[i].end[1] >= now[1]))

\* An evaluated calendar with an event lying strictly inside the period, so
\* that neither end of the period is inside the event.
C1_Witness ==
    /\ Called
    /\ Margin >= 0
    /\ \E i \in DOMAIN events :
        /\ WellOrdered(events[i])
        /\ now[1] < events[i].start[1]
        /\ events[i].end[1] < Buffered[1]
        /\ happensBetween(events[i], now, Buffered)

\* ------------------------------------------------------------------- C2
\* C2: a call with a negative advanceMarginSeconds is rejected with a
\* validation failure and returns no verdict.
C2_NegativeMarginRejected ==
    \A c \in Completions : Margin < 0 => c.completion = "throw"

\* ------------------------------------------------------------------- C3
\* C3: a VEVENT record lacking start or end is excluded: no call fails, and
\* the verdict equals the verdict of the calendar without that record.
C3_MalformedRecordExcluded ==
    \A c \in Completions : \A i \in DOMAIN events :
        (EventKind(events[i]) /\ ~HasBounds(events[i])) =>
            /\ c.completion = "return"
            /\ c.value = shouldBlockPipeline(RemoveAt(events, i), now, marginArg)

\* ------------------------------------------------------------------- C4
\* The calendars obtained from evs by dropping any set of its records whose
\* type is not VEVENT.
RECURSIVE WithoutSomeNonEvents(_)
WithoutSomeNonEvents(evs) ==
    IF evs = <<>> THEN {<<>>}
    ELSE LET rest == WithoutSomeNonEvents(Tail(evs))
             kept == {<<Head(evs)>> \o r : r \in rest}
         IN  IF EventKind(Head(evs)) THEN kept ELSE kept \cup rest

\* C4: records whose type is not VEVENT never affect the result: the value
\* returned equals the value for the calendar with any of them removed,
\* whatever their start and end.
C4_NonEventsIgnored ==
    Called =>
        \A evs \in WithoutSomeNonEvents(events) :
            Values = {shouldBlockPipeline(evs, now, marginArg)}

\* An evaluated calendar holding a non-event record whose bounds conflict
\* with the period, and no conflicting event.
C4_Witness ==
    /\ Called
    /\ \E i \in DOMAIN events :
        /\ ~EventKind(events[i])
        /\ happensBetween(events[i], now, Buffered)
    /\ \A v \in Values : ~Blocked(v)

\* ------------------------------------------------------------------- C5
\* C5: for a fixed calendar and a fixed now, if the verdict is blocked with
\* margin m then it is blocked with every margin m2 >= m.
C5_MarginMonotone ==
    \A v \in Values : \A m2 \in MarginArgs :
        (Blocked(v) /\ MarginOf(m2) >= Margin) =>
            Blocked(shouldBlockPipeline(events, now, m2))

\* ------------------------------------------------------------------- C6
Contains(e) == HasBounds(e) /\ e.start[1] <= now[1] /\ now[1] <= e.end[1]

StartsOrEndsAt(e) == e.start = now \/ e.end = now

\* C6 as stated, on calendars whose records all have a start and an end:
\* with margin 0 the evaluation is blocked if and only if some event-kind
\* record has start <= now <= end.
C6_ZeroMarginIsContainment ==
    \A v \in Values :
        (Margin = 0 /\ \A i \in DOMAIN events : HasBounds(events[i])) =>
            (Blocked(v)
                <=> \E i \in DOMAIN events : EventKind(events[i]) /\ Contains(events[i]))

\* C6 as amended: with margin 0 the evaluation is blocked if and only if some
\* event-kind record has start <= now <= end, or has start = now, or has
\* end = now.
C6_ZeroMarginIsContainmentOrBound ==
    \A v \in Values :
        Margin = 0 =>
            (Blocked(v)
                <=> \E i \in DOMAIN events :
                        /\ EventKind(events[i])
                        /\ (Contains(events[i]) \/ StartsOrEndsAt(events[i])))

\* Evaluated with margin 0: blocked by an event with start > end that starts
\* at now, while no event contains now.
C6_Witness ==
    /\ Called
    /\ Margin = 0
    /\ \A v \in Values : Blocked(v) /\ v[1].start = now /\ ~Contains(v[1])
    /\ \A i \in DOMAIN events : ~Contains(events[i])

\* ------------------------------------------------------------------- C7
ConflictingEvent(e) == EventKind(e) /\ happensBetween(e, now, Buffered)

\* C7: the result is undefined if and only if no event-kind record conflicts
\* with the period from now to now + margin; otherwise it is one record of
\* the calendar, of type VEVENT, that conflicts with that period.
C7_ResultIsNoneOrConflictingMember ==
    \A v \in Values :
        /\ ~Blocked(v) <=> \A i \in DOMAIN events : ~ConflictingEvent(events[i])
        /\ Blocked(v) =>
            /\ Len(v) = 1
            /\ \E i \in DOMAIN events : events[i] = v[1]
            /\ ConflictingEvent(v[1])

\* Evaluated with exactly one conflicting event among two event-kind records.
C7_Witness ==
    /\ Called
    /\ Cardinality({i \in DOMAIN events : EventKind(events[i])}) = 2
    /\ Cardinality({i \in DOMAIN events : ConflictingEvent(events[i])}) = 1
    /\ \A v \in Values : Blocked(v)

\* ------------------------------------------------------------------- C8
\* C8: the returned event is the first conflicting event in the order of
\* Object.values: no conflicting event precedes it.
C8_FirstInIterationOrder ==
    \A v \in Values :
        Blocked(v) =>
            \E i \in DOMAIN events :
                /\ events[i] = v[1]
                /\ \A j \in 1..(i - 1) : ~ConflictingEvent(events[j])

\* Evaluated with two conflicting events, the one that starts later being
\* first in the calendar and returned.
C8_Witness ==
    /\ Called
    /\ Len(events) = 2
    /\ ConflictingEvent(events[1]) /\ ConflictingEvent(events[2])
    /\ WellOrdered(events[1]) /\ WellOrdered(events[2])
    /\ events[1].start[1] > events[2].start[1]
    /\ \A v \in Values : v = <<events[1]>>

\* ------------------------------------------------------------------- C9
\* The records of evs in the order p.
Reordered(evs, p) == [i \in 1..Len(evs) |-> evs[p[i]]]

\* C9: whether the verdict is blocked does not depend on the order of the
\* records.
C9_VerdictIgnoresOrder ==
    \A v \in Values : \A p \in Permutations(DOMAIN events) :
        Blocked(v) <=> Blocked(shouldBlockPipeline(Reordered(events, p), now, marginArg))

\* Evaluated with a non-conflicting event first and a conflicting one second,
\* so that another order returns at its first record.
C9_Witness ==
    /\ Called
    /\ Len(events) = 2
    /\ EventKind(events[1]) /\ ~ConflictingEvent(events[1])
    /\ ConflictingEvent(events[2])
    /\ \A v \in Values : v = <<events[2]>>

\* ------------------------------------------------------------------ C10
\* C10: calls with the same calendar, now and margin complete identically;
\* an earlier call does not change what a later one returns.
C10_RepeatedCallsAgree ==
    CalledTwice => returned = previous

\* Two calls made, both blocked.
C10_Witness ==
    /\ CalledTwice
    /\ Blocked(previous[1].value)
    /\ Blocked(returned[1].value)

\* ------------------------------------------------------------------ C11
\* C11: a call leaves its inputs as they were: the calendar (its keys and
\* every field of every record) and the now instant, whatever the verdict.
C11_InputsUnchanged == [][events' = events /\ now' = now]_vars

\* A call was made on a calendar with records, and it was blocked.
C11_Witness ==
    /\ Called
    /\ Len(events) = MaxEvents
    /\ \A v \in Values : Blocked(v)

\* ------------------------------------------------------------------ C13
\* The end of the period, from the margin in seconds.
WindowEnd == now[1] + Margin * MillisPerSecond

InWindow(d) == d # Undefined /\ now[1] <= d[1] /\ d[1] <= WindowEnd

EndedBefore(e) == WellOrdered(e) /\ e.end[1] < now[1]

\* C13: the margin extends the period forward only: with a margin >= 0, an
\* event with start <= end that ended before now is never a conflict, and an
\* event whose start lies in [now, now + margin] is always one.
C13_MarginLooksForward ==
    Margin >= 0 =>
        /\ \A i \in DOMAIN events :
            /\ EndedBefore(events[i]) => ~happensBetween(events[i], now, Buffered)
            /\ InWindow(events[i].start) => happensBetween(events[i], now, Buffered)
        /\ \A v \in Values :
            /\ (\E i \in DOMAIN events : EventKind(events[i]) /\ InWindow(events[i].start))
                    => Blocked(v)
            /\ (\A i \in DOMAIN events : EventKind(events[i]) => EndedBefore(events[i]))
                    => ~Blocked(v)

\* Evaluated with a positive margin on an event that ended before now and an
\* event that starts after now, at the end of the period: the second blocks.
C13_Witness ==
    /\ Called
    /\ Margin > 0
    /\ Len(events) = 2
    /\ EventKind(events[1]) /\ EndedBefore(events[1])
    /\ EventKind(events[2]) /\ WellOrdered(events[2]) /\ events[2].start[1] = WindowEnd
    /\ \A v \in Values : v = <<events[2]>>

\* ------------------------------------------------------------------ C14
\* C14: if now lies within [start, end] of some event-kind record, the
\* verdict is blocked whatever the margin.
C14_InsideEventBlocks ==
    (\E i \in DOMAIN events : EventKind(events[i]) /\ Contains(events[i])) =>
        /\ \A v \in Values : Blocked(v)
        /\ \A m \in MarginArgs : Blocked(shouldBlockPipeline(events, now, m))

\* Evaluated at a now strictly inside the only event; blocked.
C14_Witness ==
    /\ Called
    /\ Len(events) = 1
    /\ EventKind(events[1]) /\ HasBounds(events[1])
    /\ events[1].start[1] < now[1] /\ now[1] < events[1].end[1]
    /\ \A v \in Values : Blocked(v)

\* ------------------------------------------------------------------ C15
\* C15: with advanceMarginSeconds omitted the period ends at now plus 3600
\* seconds, that is now + 3600 * 1000 ms, and the result is that of the call
\* with the margin 3600 passed.
C15_OmittedMarginIsOneHour ==
    marginArg = Undefined =>
        /\ Buffered = <<now[1] + 3600 * 1000>>
        /\ \A v \in Values : v = shouldBlockPipeline(events, now, <<3600>>)

\* Evaluated without a margin on an event that starts one hour after now:
\* blocked.
C15_Witness ==
    /\ Called
    /\ marginArg = Undefined
    /\ Len(events) = 1
    /\ EventKind(events[1]) /\ WellOrdered(events[1])
    /\ events[1].start[1] = now[1] + 3600 * 1000
    /\ \A v \in Values : v = <<events[1]>>

\* ------------------------------------------------------------------ C18
Inverted(e) == HasBounds(e) /\ e.start[1] > e.end[1]

\* C18: an event-kind record with start > end is taken as given: no call
\* fails, the record is returned with its bounds as they are, and with a
\* margin >= 0 it is a conflict exactly when its start or its end lies in
\* [now, now + margin].
C18_InvertedEventTakenAsGiven ==
    \A i \in DOMAIN events :
        (EventKind(events[i]) /\ Inverted(events[i])) =>
            /\ \A c \in Completions : c.completion = "return"
            /\ \A v \in Values : (Blocked(v) /\ v[1].uid = i) => v[1] = events[i]
            /\ Margin >= 0 =>
                /\ happensBetween(events[i], now, Buffered)
                        <=> (InWindow(events[i].start) \/ InWindow(events[i].end))
                /\ Len(events) = 1 =>
                        \A v \in Values :
                            Blocked(v) <=> (InWindow(events[i].start) \/ InWindow(events[i].end))

\* Evaluated at a now strictly between the end and the start of the only
\* event, with a margin that reaches neither: not blocked.
C18_Witness ==
    /\ Called
    /\ Margin >= 0
    /\ Len(events) = 1
    /\ EventKind(events[1]) /\ Inverted(events[1])
    /\ events[1].end[1] < now[1] /\ WindowEnd < events[1].start[1]
    /\ \A v \in Values : ~Blocked(v)

\* ------------------------------------------------------------------ C17
\* A verdict goes from blocked to not blocked and back.
Flaps(vs) ==
    \E i, j, k \in DOMAIN vs : i < j /\ j < k /\ vs[i] /\ ~vs[j] /\ vs[k]

\* C17: for a single event with start <= end and a margin >= 0, evaluations
\* at non-decreasing instants are blocked exactly while
\* start - margin <= now <= end, so the verdicts are a run of not blocked, a
\* run of blocked, and not blocked from then on.
C17_NoFlapping ==
    (/\ Len(events) = 1 /\ EventKind(events[1]) /\ WellOrdered(events[1])
     /\ Margin >= 0) =>
        /\ \A c \in {returned[k] : k \in DOMAIN returned} :
                Blocked(c.value)
                    <=> (/\ events[1].start[1] - Margin * MillisPerSecond <= now[1]
                         /\ now[1] <= events[1].end[1])
        /\ ~Flaps(verdicts)

\* A series over one event, with a positive margin: not blocked, blocked
\* before the event starts, blocked at its start, not blocked after its end.
C17_Witness ==
    /\ Len(events) = 1 /\ EventKind(events[1]) /\ WellOrdered(events[1])
    /\ Margin > 0
    /\ verdicts = <<FALSE, TRUE, TRUE, FALSE>>
    /\ now[1] > events[1].end[1]

\* ------------------------------------------------------------------ C12
ConflictsFor(e, p) ==
    happensBetween(e, calls[p].now, BufferedDate(calls[p].now, MarginOf(calls[p].marginArg)))

\* C12: under every interleaving of invocations sharing a calendar, each
\* invocation returns what it returns when run alone on that calendar with
\* its own now and margin.
C12_ConcurrentCallsAsAlone ==
    \A p \in Procs :
        calls[p].pc = "done" =>
            calls[p].returned =
                <<Return(shouldBlockPipeline(calls[p].given, calls[p].now, calls[p].marginArg))>>

\* Two invocations are done, one blocked and the other not, on a calendar
\* with a non-event record that conflicts with the period of the latter.
C12_Witness ==
    /\ \A p \in Procs : calls[p].pc = "done"
    /\ \E p, q \in Procs :
        /\ Blocked(calls[p].returned[1].value)
        /\ ~Blocked(calls[q].returned[1].value)
        /\ \E i \in DOMAIN events : ConflictsFor(events[i], q) /\ ~EventKind(events[i])

\* ------------------------------------------------------------------ C16
Range(f) == {f[x] : x \in DOMAIN f}

HasCsr ==
    /\ "CertificateSigningRequest" \in Range(csc.children)
    /\ \E o \in Range(csc.outputs) : o.id = "CSR"

HasNoCsr ==
    /\ "CertificateSigningRequest" \notin Range(csc.children)
    /\ \A o \in Range(csc.outputs) : o.id # "CSR"

\* C16 as stated: the certificate signing request and its CSR output are
\* created if and only if pemCertificate is not given or
\* forceCertificateSigningRequest is true; the parameter holds pemCertificate
\* whenever it is given, and the self-signed certificate otherwise.
C16_CsrIffNoCertificateOrForced ==
    csc.constructed =>
        /\ IF \/ csc.props.pemCertificate = Undefined
              \/ csc.props.forceCertificateSigningRequest = <<TRUE>>
           THEN HasCsr ELSE HasNoCsr
        /\ csc.parameterValue =
                IF csc.props.pemCertificate # Undefined
                THEN csc.props.pemCertificate
                ELSE <<"csr.selfSignedPemCertificate">>

\* C16 as amended: the same with the empty string counted as no certificate.
C16_CsrIffNoCertificateTextOrForced ==
    csc.constructed =>
        /\ IF \/ csc.props.pemCertificate \in {Undefined, <<"">>}
              \/ csc.props.forceCertificateSigningRequest = <<TRUE>>
           THEN HasCsr ELSE HasNoCsr
        /\ csc.parameterValue =
                IF csc.props.pemCertificate \notin {Undefined, <<"">>}
                THEN csc.props.pemCertificate
                ELSE <<"csr.selfSignedPemCertificate">>

\* Constructed with a certificate and a forced signing request: the request
\* is there and the parameter holds the certificate given.
C16_Witness ==
    /\ csc.constructed
    /\ csc.props.pemCertificate = <<"PEM">>
    /\ csc.props.forceCertificateSigningRequest = <<TRUE>>
    /\ HasCsr
    /\ csc.parameterValue = <<"PEM">>

\* ------------------------------------------------------------------ C19
BuiltOnLinux ==
    /\ shell.status = "constructed"
    /\ shell.props.platform \in {Undefined, <<"Linux">>}

PreBuild == shell.buildSpec[1].preBuild

Appended == SubSeq(PreBuild, Len(DownloadCommands) + 1, Len(PreBuild))

Mentions(line, piece) == piece \in Range(line)

Exports(line, variable) == Len(line) >= 2 /\ line[1] = "export" /\ line[2] = variable

ExportsAs(line, variable, value) == line = <<"export", variable, value>>

\* C19: the commands of LinuxPlatform.prebuildCommands begin with the four
\* download commands in their order; without assumeRole there is nothing
\* more; with assumeRole.refresh true the profile is configured and
\* AWS_PROFILE exported (profileName, or 'long-running-profile' when absent)
\* and no line runs 'aws sts assume-role'; with assumeRole and refresh not
\* true one line runs 'aws sts assume-role' (regional endpoints iff
\* useRegionalStsEndpoints, legacy otherwise), the three credentials are
\* exported and AWS_PROFILE is not.
C19_LinuxPrebuildCommands ==
    BuiltOnLinux =>
        LET role == shell.props.assumeRole
            profile == IF role[1].profileName = Undefined
                       THEN "long-running-profile" ELSE role[1].profileName[1]
            endpoints == IF shell.props.useRegionalStsEndpoints = <<TRUE>>
                         THEN "regional" ELSE "legacy"
        IN  /\ Len(PreBuild) >= Len(DownloadCommands)
            /\ SubSeq(PreBuild, 1, Len(DownloadCommands)) = DownloadCommands
            /\ role = Undefined => Appended = <<>>
            /\ (role # Undefined /\ role[1].refresh = <<TRUE>>) =>
                    /\ \E l \in Range(Appended) :
                            Mentions(l, "[profile") /\ Mentions(l, profile)
                    /\ \E l \in Range(Appended) : ExportsAs(l, "AWS_PROFILE=", profile)
                    /\ \A l \in Range(PreBuild) : ~Mentions(l, "aws sts assume-role")
            /\ (role # Undefined /\ role[1].refresh # <<TRUE>>) =>
                    /\ \E l \in Range(Appended) :
                            /\ Mentions(l, "aws sts assume-role")
                            /\ l[1] = "AWS_STS_REGIONAL_ENDPOINTS=" /\ l[2] = endpoints
                    /\ \A variable \in {"AWS_ACCESS_KEY_ID=", "AWS_SECRET_ACCESS_KEY=",
                                         "AWS_SESSION_TOKEN="} :
                            \E l \in Range(Appended) : Exports(l, variable)
                    /\ \A l \in Range(PreBuild) : ~Exports(l, "AWS_PROFILE=")

\* Built on Linux with a refreshed role that names no profile: the default
\* profile is exported after the download commands.
C19_Witness ==
    /\ BuiltOnLinux
    /\ shell.props.assumeRole # Undefined
    /\ shell.props.assumeRole[1].refresh = <<TRUE>>
    /\ shell.props.assumeRole[1].profileName = Undefined
    /\ Len(PreBuild) > Len(DownloadCommands)
    /\ \E l \in Range(PreBuild) : ExportsAs(l, "AWS_PROFILE=", "long-running-profile")

\* ------------------------------------------------------------------ C20
Created(id) == id \in Range(shell.children)

\* C20: when the entrypoint file does not exist, construction fails with
\* the error 'Cannot find test entrypoint' and neither the script asset nor
\* the CodeBuild project nor the alarm has been created.
C20_MissingEntrypointFailsFirst ==
    (shell.status # "new" /\ ~shell.props.entrypointExists) =>
        /\ shell.status = "failed"
        /\ shell.error # Undefined
        /\ shell.error[1][1] = "Cannot find test entrypoint:"
        /\ ~Created("ScriptDirectory") /\ ~Created("Resource") /\ ~Created("Alarm")

\* Construction was tried without the entrypoint file and has failed.
C20_Witness ==
    /\ shell.status = "failed"
    /\ ~shell.props.entrypointExists
    /\ shell.error = << <<"Cannot find test entrypoint:", "scripts", "/", "test.sh">> >>
    /\ shell.children = <<>>

\* ------------------------------------------------------------------ C21
OnWindowsWithRole ==
    /\ shell.props.platform = <<"Windows">>
    /\ shell.props.assumeRole # Undefined

NameFits == Len(shell.props.uniqueId) + Len(ArtifactPrefix) <= MaxArtifactNameLength

\* C21: on the Windows platform the prebuild commands fail with an error
\* whenever an assumeRole is supplied and are the empty list otherwise; a
\* Shellable on Windows with an assumeRole is never constructed, and has
\* neither CodeBuild project nor alarm.
C21_WindowsRejectsAssumeRole ==
    (shell.status # "new" /\ shell.props.platform = <<"Windows">>) =>
        /\ OnWindowsWithRole =>
                /\ shell.status = "failed"
                /\ ~Created("Resource") /\ ~Created("Alarm")
                /\ (shell.props.entrypointExists /\ NameFits) =>
                        shell.error[1][1] = "assumeRole is not supported on Windows:"
        /\ (~OnWindowsWithRole /\ shell.status = "constructed") => PreBuild = <<>>

\* Construction on Windows with a role, an entrypoint that exists and a
\* name that fits has failed on the prebuild commands, after the script
\* asset was created.
C21_Witness ==
    /\ OnWindowsWithRole
    /\ shell.props.entrypointExists
    /\ NameFits
    /\ shell.status = "failed"
    /\ shell.error[1][1] = "assumeRole is not supported on Windows:"
    /\ shell.children = <<"ScriptDirectory">>

\* ------------------------------------------------------------------ C22
\* C22: a construction that succeeds leaves an output artifact name of at
\* most 100 characters and a construction with a longer name fails; each
\* addToPipeline call adds exactly one action to the stage, for the
\* CodeBuild project, whose outputs are the primary artifact followed by
\* the additional artifact names of the build spec in their order.
C22_ArtifactNameAndOutputs ==
    [][/\ shell'.status = "constructed" =>
            /\ shell'.outputArtifactName # Undefined
            /\ Len(shell'.outputArtifactName[1]) <= MaxArtifactNameLength
       /\ (shell.status = "new" /\ ~NameFits) => shell'.status = "failed"
       /\ shell.status = "constructed" =>
            /\ Len(shell'.stage) = Len(shell.stage) + 1
            /\ SubSeq(shell'.stage, 1, Len(shell.stage)) = shell.stage
            /\ LET added == shell'.stage[Len(shell'.stage)]
                   additional == shell.buildSpec[1].additionalArtifactNames
               IN  /\ added.project = "Resource"
                   /\ Len(added.outputs) = 1 + Len(additional)
                   /\ added.outputs[1] = ArtifactPrefix \o shell.props.uniqueId
                   /\ \A i \in DOMAIN additional : added.outputs[i + 1] = additional[i]
      ]_vars

\* A Shellable whose artifact name has exactly the longest length allowed
\* was added twice to the pipeline with two additional artifacts.
C22_Witness ==
    /\ shell.status = "constructed"
    /\ Len(shell.outputArtifactName[1]) = MaxArtifactNameLength
    /\ Len(shell.stage) = MaxPipelineActions
    /\ shell.buildSpec[1].additionalArtifactNames = << <<"b">>, <<"a">> >>
    /\ \A i \in DOMAIN shell.stage :
            shell.stage[i].outputs = shell.outputArtifactName \o << <<"b">>, <<"a">> >>

====
